---- MODULE Spec2Model ----
(***************************************************************************)
(* Model of the application store (useAppStore: assets, scene objects,    *)
(* selection, active camera, undo/redo history) and of the CameraManager   *)
(* component that reconciles the live orbit camera with the store.         *)
(*                                                                         *)
(* Lengths are in hundredths of a scene unit, so the 0.05 threshold of the *)
(* camera sync is 5 and the distance tests are exact on squared lengths.   *)
(* Angles are in hundredths of a radian.                                   *)
(***************************************************************************)
EXTENDS Integers, Sequences, FiniteSets, TLC

VARIABLES store, nextId, cm, mark, preActivation, lastOp, lastId, budget,
          now, timeouts, notified, poll, call

vars == <<store, nextId, cm, mark, preActivation, lastOp, lastId, budget,
          now, timeouts, notified, poll, call>>

\* the clock, the pending setTimeout callbacks and the record of the
\* notifications added so far, the polling of a generation task, and the call
\* of a service function
service == <<now, timeouts, notified, poll, call>>

(* ---------------------------- bounds ----------------------------------- *)

\* uuidv4() hands out the ids up to MaxId; the next id, never handed out
\* before, is the id of no object
MaxId == 3
\* number of operations in a run of the store operations
MaxSteps == 4
\* number of operations in a run of the camera operations
MaxCamSteps == 5
\* number of operations and time steps in a run of the notification queue
MaxNotifSteps == 6
\* number of interval ticks in a run of the polling of a task
MaxPollTicks == 3
\* status requests of one pollTripoTask run that are in flight together in
\* the run that is followed up to maxAttempts
MaxInflight == 1
\* the largest retries argument of fetchWithRetry (its default is 3)
MaxRetries == 3

(* ---------------------------- values ----------------------------------- *)

NULL == 0
\* a null modelUrl
NoUrl == "null"
DEFAULT_LIGHT_ID == 1
DEFAULT_CAMERA_ID == 2

ZERO3 == <<0, 0, 0>>
ONE3 == <<100, 100, 100>>

\* the editor camera default
EDITOR_CAMERA == [position |-> <<200, 150, 400>>, target |-> <<0, 50, 0>>, fov |-> 50]

\* rotations the model uses: none, and the default camera's tilt of -0.1 rad
Rotations == {ZERO3, <<-10, 0, 0>>}

\* positions an orbit gesture can leave the live camera at: the default
\* camera's place moved by 0.03 (below the threshold), and two far places
GesturePositions == {<<0, 100, 353>>, <<300, 100, 0>>}
GestureTargets == {<<0, 50, 0>>}

Abs(x) == IF x < 0 THEN -x ELSE x

\* squared distance of two points (THREE.Vector3.distanceTo, squared)
DistSq(a, b) ==
    (a[1] - b[1]) * (a[1] - b[1]) + (a[2] - b[2]) * (a[2] - b[2])
        + (a[3] - b[3]) * (a[3] - b[3])

\* 0.05 squared, in hundredths
EpsSq == 25

Add3(a, b) == <<a[1] + b[1], a[2] + b[2], a[3] + b[3]>>

\* (0,0,-1) rotated by the Euler rotation, times 10
Forward10(rot) ==
    IF rot = <<-10, 0, 0>> THEN <<0, -100, -995>> ELSE <<0, 0, -1000>>

\* { ...a, ...b }: the fields of b override those of a
Merge(a, b) ==
    [f \in (DOMAIN a) \cup (DOMAIN b) |-> IF f \in DOMAIN b THEN b[f] ELSE a[f]]

(* ---------------------------- sequences -------------------------------- *)

Map(f(_), s) ==
    LET F[i \in 0..Len(s)] == IF i = 0 THEN <<>> ELSE Append(F[i - 1], f(s[i]))
    IN  F[Len(s)]

Filter(p(_), s) == SelectSeq(s, p)

\* what Array.find returns when nothing matches
Undefined == [undefined |-> TRUE]

Find(p(_), s) ==
    IF \E i \in 1..Len(s) : p(s[i])
    THEN s[CHOOSE i \in 1..Len(s) : p(s[i]) /\ \A j \in 1..(i - 1) : ~p(s[j])]
    ELSE Undefined

HasId(objs, id) == \E i \in 1..Len(objs) : objs[i].id = id

Count(p(_), s) == Cardinality({i \in 1..Len(s) : p(s[i])})

(* ---------------------------- initial store ----------------------------- *)

MainLight ==
    [id |-> DEFAULT_LIGHT_ID, type |-> "light", name |-> <<"Main Light", 0>>,
     transform |-> [position |-> <<500, 500, 500>>, rotation |-> ZERO3, scale |-> ONE3],
     visible |-> TRUE,
     lightProps |-> [intensity |-> 15, color |-> "#ffffff", castShadow |-> TRUE]]

MainCamera ==
    [id |-> DEFAULT_CAMERA_ID, type |-> "camera", name |-> <<"Main Camera", 0>>,
     transform |-> [position |-> <<0, 100, 350>>, rotation |-> <<-10, 0, 0>>, scale |-> ONE3],
     visible |-> TRUE, locked |-> FALSE,
     cameraProps |-> [fov |-> 45]]

InitStore ==
    [assets |-> <<>>,
     sceneObjects |-> <<MainLight, MainCamera>>,
     selectedObjectId |-> DEFAULT_CAMERA_ID,
     activeCameraId |-> DEFAULT_CAMERA_ID,
     renderSettings |-> [autoRotate |-> FALSE, gridVisible |-> FALSE],
     cameraState |-> EDITOR_CAMERA,
     cameraVersion |-> 0,
     notifications |-> <<>>,
     past |-> <<>>,
     future |-> <<>>]

(* ---------------------------- store operations -------------------------- *)

\* obj.locked, which is undefined (falsy) on an object without the field
Locked(obj) == "locked" \in DOMAIN obj /\ obj.locked

\* the UndoableState taken from a store state
Snapshot(s) ==
    [sceneObjects |-> s.sceneObjects,
     renderSettings |-> s.renderSettings,
     selectedObjectId |-> s.selectedObjectId]

setAssets(s, assets) == [s EXCEPT !.assets = assets]

addAsset(s, asset) == [s EXCEPT !.assets = <<asset>> \o s.assets]

updateAsset(s, id, updates) ==
    LET upd(a) == IF a.id = id THEN Merge(a, updates) ELSE a
    IN  [s EXCEPT !.assets = Map(upd, s.assets)]

\* removeAsset that records the removal in the history
removeAsset_history(s, id) ==
    LET keep(a) == a.id # id
    IN  [s EXCEPT !.assets = Filter(keep, s.assets),
                  !.past = Append(s.past, Snapshot(s)),
                  !.future = <<>>]

removeAsset(s, id) ==
    LET keep(a) == a.id # id
    IN  [s EXCEPT !.assets = Filter(keep, s.assets)]

addModelToScene(s, newId, url, name) ==
    LET newObject ==
            [id |-> newId, type |-> "model", name |-> <<name, 0>>, url |-> url,
             transform |-> [position |-> ZERO3, rotation |-> ZERO3, scale |-> ONE3],
             visible |-> TRUE, locked |-> FALSE]
    IN  [s EXCEPT !.sceneObjects = Append(s.sceneObjects, newObject),
                  !.selectedObjectId = newId,
                  !.past = Append(s.past, Snapshot(s)),
                  !.future = <<>>]

addLightToScene(s, newId) ==
    LET isLight(o) == o.type = "light"
        newLight ==
            [id |-> newId, type |-> "light",
             name |-> <<"Light", Count(isLight, s.sceneObjects) + 1>>,
             transform |-> [position |-> <<200, 500, 200>>, rotation |-> ZERO3, scale |-> ONE3],
             visible |-> TRUE, locked |-> FALSE,
             lightProps |-> [intensity |-> 10, color |-> "#ffffff", castShadow |-> TRUE]]
    IN  [s EXCEPT !.sceneObjects = Append(s.sceneObjects, newLight),
                  !.selectedObjectId = newId,
                  !.past = Append(s.past, Snapshot(s)),
                  !.future = <<>>]

\* addCameraToScene that puts the new camera in front of the list
addCameraToScene_unshift(s, newId) ==
    LET isCamera(o) == o.type = "camera"
        newCamera ==
            [id |-> newId, type |-> "camera",
             name |-> <<"Camera", Count(isCamera, s.sceneObjects) + 1>>,
             transform |-> [position |-> <<0, 200, 500>>, rotation |-> ZERO3, scale |-> ONE3],
             visible |-> TRUE, locked |-> FALSE,
             cameraProps |-> [fov |-> 50]]
    IN  [s EXCEPT !.sceneObjects = <<newCamera>> \o s.sceneObjects,
                  !.selectedObjectId = newId,
                  !.past = Append(s.past, Snapshot(s)),
                  !.future = <<>>]

addCameraToScene(s, newId) ==
    LET isCamera(o) == o.type = "camera"
        newCamera ==
            [id |-> newId, type |-> "camera",
             name |-> <<"Camera", Count(isCamera, s.sceneObjects) + 1>>,
             transform |-> [position |-> <<0, 200, 500>>, rotation |-> ZERO3, scale |-> ONE3],
             visible |-> TRUE, locked |-> FALSE,
             cameraProps |-> [fov |-> 50]]
    IN  [s EXCEPT !.sceneObjects = Append(s.sceneObjects, newCamera),
                  !.selectedObjectId = newId,
                  !.past = Append(s.past, Snapshot(s)),
                  !.future = <<>>]

\* updateSceneObject that records nothing in the history
updateSceneObject_noHistory(s, id, updates) ==
    LET upd(o) == IF o.id = id THEN Merge(o, updates) ELSE o
    IN  [s EXCEPT !.sceneObjects = Map(upd, s.sceneObjects)]

updateSceneObject(s, id, updates) ==
    LET upd(obj) == IF obj.id = id THEN Merge(obj, updates) ELSE obj
    IN  [s EXCEPT !.sceneObjects = Map(upd, s.sceneObjects),
                  !.past = Append(s.past, Snapshot(s)),
                  !.future = <<>>]

\* removeSceneObject by findIndex and splice: a missing id (index -1) removes
\* the last object
removeSceneObject_splice(s, id) ==
    LET keep(obj) == obj.id # id
        isActiveCamera == s.activeCameraId = id
        n == Len(s.sceneObjects)
    IN  [s EXCEPT !.sceneObjects =
                      IF HasId(s.sceneObjects, id) \/ n = 0
                      THEN Filter(keep, s.sceneObjects)
                      ELSE SubSeq(s.sceneObjects, 1, n - 1),
                  !.selectedObjectId = IF s.selectedObjectId = id THEN NULL ELSE s.selectedObjectId,
                  !.activeCameraId = IF isActiveCamera THEN NULL ELSE s.activeCameraId,
                  !.past = Append(s.past, Snapshot(s)),
                  !.future = <<>>]

\* removeSceneObject that forgets the active camera
removeSceneObject_keepActive(s, id) ==
    LET keep(obj) == obj.id # id
    IN  [s EXCEPT !.sceneObjects = Filter(keep, s.sceneObjects),
                  !.selectedObjectId = IF s.selectedObjectId = id THEN NULL ELSE s.selectedObjectId,
                  !.past = Append(s.past, Snapshot(s)),
                  !.future = <<>>]

removeSceneObject(s, id) ==
    LET keep(obj) == obj.id # id
        isActiveCamera == s.activeCameraId = id
    IN  [s EXCEPT !.sceneObjects = Filter(keep, s.sceneObjects),
                  !.selectedObjectId = IF s.selectedObjectId = id THEN NULL ELSE s.selectedObjectId,
                  !.activeCameraId = IF isActiveCamera THEN NULL ELSE s.activeCameraId,
                  !.past = Append(s.past, Snapshot(s)),
                  !.future = <<>>]

\* clearScene that leaves the selection alone
clearScene_keepSelected(s) ==
    [s EXCEPT !.sceneObjects = <<>>,
              !.activeCameraId = NULL,
              !.past = Append(s.past, Snapshot(s))]

clearScene(s) ==
    [s EXCEPT !.sceneObjects = <<>>,
              !.selectedObjectId = NULL,
              !.activeCameraId = NULL,
              !.past = Append(s.past, Snapshot(s))]

setSelectedObjectId(s, id) == [s EXCEPT !.selectedObjectId = id]

setActiveCameraId(s, id) == [s EXCEPT !.activeCameraId = id]

\* updateSelectedObjectTransform without the locked guard
updateSelectedObjectTransform_noLock(s, updates) ==
    LET upd(obj) ==
            IF obj.id = s.selectedObjectId
            THEN [obj EXCEPT !.transform = Merge(obj.transform, updates)]
            ELSE obj
    IN  IF s.selectedObjectId = NULL THEN s
        ELSE [s EXCEPT !.sceneObjects = Map(upd, s.sceneObjects),
                       !.past = Append(s.past, Snapshot(s)),
                       !.future = <<>>]

updateSelectedObjectTransform(s, updates) ==
    LET isSel(o) == o.id = s.selectedObjectId
        currentObj == Find(isSel, s.sceneObjects)
        upd(obj) ==
            IF obj.id = s.selectedObjectId
            THEN [obj EXCEPT !.transform = Merge(obj.transform, updates)]
            ELSE obj
    IN  IF s.selectedObjectId = NULL THEN s
        ELSE IF currentObj # Undefined /\ Locked(currentObj) THEN s
        ELSE [s EXCEPT !.sceneObjects = Map(upd, s.sceneObjects),
                       !.past = Append(s.past, Snapshot(s)),
                       !.future = <<>>]

updateRenderSettings(s, updates) ==
    [s EXCEPT !.renderSettings = Merge(s.renderSettings, updates),
              !.past = Append(s.past, Snapshot(s)),
              !.future = <<>>]

setCameraState(s, newState) ==
    [s EXCEPT !.cameraState = Merge(s.cameraState, newState),
              !.cameraVersion = s.cameraVersion + 1]

\* syncCameraState that counts as an external write
syncCameraState_bump(s, newState) ==
    [s EXCEPT !.cameraState = Merge(s.cameraState, newState),
              !.cameraVersion = s.cameraVersion + 1]

syncCameraState(s, newState) ==
    [s EXCEPT !.cameraState = Merge(s.cameraState, newState)]

resetCamera(s) ==
    [s EXCEPT !.cameraState = EDITOR_CAMERA,
              !.cameraVersion = s.cameraVersion + 1]

\* the delay of addNotification's setTimeout, in ms
NOTIFICATION_MS == 4000

\* the state update of addNotification, with id the uuid it draws
addNotification(s, id, type, message) ==
    [s EXCEPT !.notifications =
                  Append(s.notifications, [id |-> id, type |-> type, message |-> message])]

\* addNotification's setTimeout with a delay of 5000 ms
addNotificationTimeout_late(ts, id, t) ==
    ts \cup {[id |-> id, due |-> t + NOTIFICATION_MS + 1000]}

\* the pending timeouts after addNotification's setTimeout at time t
addNotificationTimeout(ts, id, t) == ts \cup {[id |-> id, due |-> t + NOTIFICATION_MS]}

\* removeNotification that removes the oldest notification when the id is gone
removeNotification_shift(s, id) ==
    LET keep(n) == n.id # id
        has(n) == n.id = id
    IN  [s EXCEPT !.notifications =
                      IF Find(has, s.notifications) # Undefined \/ Len(s.notifications) = 0
                      THEN Filter(keep, s.notifications)
                      ELSE Tail(s.notifications)]

removeNotification(s, id) ==
    LET keep(n) == n.id # id
    IN  [s EXCEPT !.notifications = Filter(keep, s.notifications)]

\* the callback of addNotification's setTimeout
expireNotification(s, id) ==
    LET keep(n) == n.id # id
    IN  [s EXCEPT !.notifications = Filter(keep, s.notifications)]

\* undo that restores the scene but keeps the current selection
undo_keepSelection(s) ==
    IF Len(s.past) = 0 THEN s
    ELSE LET previous == s.past[Len(s.past)]
             newPast == SubSeq(s.past, 1, Len(s.past) - 1)
         IN  [s EXCEPT !.past = newPast,
                       !.future = <<Snapshot(s)>> \o s.future,
                       !.sceneObjects = previous.sceneObjects,
                       !.renderSettings = previous.renderSettings]

undo(s) ==
    IF Len(s.past) = 0 THEN s
    ELSE LET previous == s.past[Len(s.past)]
             newPast == SubSeq(s.past, 1, Len(s.past) - 1)
         IN  [s EXCEPT !.past = newPast,
                       !.future = <<Snapshot(s)>> \o s.future,
                       !.sceneObjects = previous.sceneObjects,
                       !.renderSettings = previous.renderSettings,
                       !.selectedObjectId = previous.selectedObjectId]

\* redo that leaves the snapshot it restores on the future stack
redo_copy(s) ==
    IF Len(s.future) = 0 THEN s
    ELSE LET next == s.future[1]
         IN  [s EXCEPT !.past = Append(s.past, Snapshot(s)),
                       !.sceneObjects = next.sceneObjects,
                       !.renderSettings = next.renderSettings,
                       !.selectedObjectId = next.selectedObjectId]

redo(s) ==
    IF Len(s.future) = 0 THEN s
    ELSE LET next == s.future[1]
             newFuture == Tail(s.future)
         IN  [s EXCEPT !.past = Append(s.past, Snapshot(s)),
                       !.future = newFuture,
                       !.sceneObjects = next.sceneObjects,
                       !.renderSettings = next.renderSettings,
                       !.selectedObjectId = next.selectedObjectId]

(* ---------------------------- CameraManager ----------------------------- *)

\* the object the activeCameraObj selector returns
activeCameraObj(s) ==
    LET isActive(o) == o.id = s.activeCameraId
    IN  IF s.activeCameraId = NULL THEN Undefined ELSE Find(isActive, s.sceneObjects)

\* the component after its first render and effects over the initial store
InitCm ==
    [position |-> MainCamera.transform.position,
     target |-> Add3(MainCamera.transform.position, Forward10(MainCamera.transform.rotation)),
     fov |-> 50,
     isSyncingStoreToCamera |-> FALSE,
     isTransitioning |-> FALSE,
     prevActiveCameraId |-> DEFAULT_CAMERA_ID,
     timers |-> 0]

\* effect on [activeCameraId]: detect Camera Mode -> Editor Mode
TransitionEffect(c, s) ==
    [c EXCEPT !.isTransitioning =
                  IF c.prevActiveCameraId # NULL /\ s.activeCameraId = NULL THEN TRUE ELSE @,
              !.prevActiveCameraId = s.activeCameraId]

\* an initialisation effect that leaves the live camera where it is
InitEffect_skip(c, s) == c

\* effect 1 on [activeCameraId, camera]: initialise from the active camera object
InitEffect(c, s) ==
    LET obj == activeCameraObj(s)
    IN  IF obj # Undefined
        THEN [c EXCEPT !.position = obj.transform.position,
                       !.target = Add3(obj.transform.position, Forward10(obj.transform.rotation))]
        ELSE c

\* a store -> camera application that sets the guard and no timeout
SyncEffect_noTimer(c, s) ==
    IF s.activeCameraId # NULL \/ c.isSyncingStoreToCamera THEN c
    ELSE IF c.isTransitioning
            \/ DistSq(c.position, s.cameraState.position) > EpsSq
            \/ DistSq(c.target, s.cameraState.target) > EpsSq
    THEN [c EXCEPT !.isSyncingStoreToCamera = TRUE,
                   !.position = s.cameraState.position,
                   !.fov = s.cameraState.fov,
                   !.target = s.cameraState.target]
    ELSE c

\* effect 2 on [cameraVersion, activeCameraId, cameraState, camera]: store -> camera
SyncEffect(c, s) ==
    LET distPosSq == DistSq(c.position, s.cameraState.position)
        distTargetSq == DistSq(c.target, s.cameraState.target)
    IN  IF s.activeCameraId # NULL THEN c
        ELSE IF c.isSyncingStoreToCamera THEN c
        ELSE IF c.isTransitioning \/ distPosSq > EpsSq \/ distTargetSq > EpsSq
        THEN [c EXCEPT !.isSyncingStoreToCamera = TRUE,
                       !.position = s.cameraState.position,
                       !.fov = IF Abs(c.fov - s.cameraState.fov) * 10 > 1
                               THEN s.cameraState.fov ELSE @,
                       !.target = s.cameraState.target,
                       !.timers = @ + 1]
        ELSE c

\* the effects a commit runs after the store went from s to t; camWritten says
\* that cameraState was replaced (setCameraState, syncCameraState, resetCamera)
RunEffects(c, s, t, camWritten) ==
    LET activeChanged == s.activeCameraId # t.activeCameraId
        c0 == IF activeChanged THEN TransitionEffect(c, t) ELSE c
        c1 == IF activeChanged THEN InitEffect(c0, t) ELSE c0
    IN  IF activeChanged \/ camWritten THEN SyncEffect(c1, t) ELSE c1

\* handleControlsChange that always takes the editor-camera branch
ControlsWrite_freeOnly(c, s) ==
    IF c.isSyncingStoreToCamera THEN "none"
    ELSE IF c.isTransitioning THEN "none"
    ELSE IF DistSq(s.cameraState.position, c.position) < EpsSq
            /\ DistSq(s.cameraState.target, c.target) < EpsSq THEN "none"
    ELSE IF c.position = ZERO3 /\ c.target = ZERO3 THEN "none"
    ELSE "syncCameraState"

\* handleControlsChange without the two guard flags
ControlsWrite_noGuard(c, s) ==
    LET obj == activeCameraObj(s)
    IN  IF s.activeCameraId # NULL
        THEN IF obj = Undefined THEN "none"
             ELSE IF DistSq(obj.transform.position, c.position) < EpsSq THEN "none"
             ELSE "updateSceneObject"
        ELSE IF DistSq(s.cameraState.position, c.position) < EpsSq
                /\ DistSq(s.cameraState.target, c.target) < EpsSq THEN "none"
        ELSE IF c.position = ZERO3 /\ c.target = ZERO3 THEN "none"
        ELSE "syncCameraState"

\* what handleControlsChange writes: "none", "updateSceneObject" or "syncCameraState"
ControlsWrite(c, s) ==
    LET obj == activeCameraObj(s)
    IN  IF c.isSyncingStoreToCamera THEN "none"
        ELSE IF c.isTransitioning THEN "none"
        ELSE IF s.activeCameraId # NULL
        THEN IF obj = Undefined THEN "none"
             ELSE IF DistSq(obj.transform.position, c.position) < EpsSq THEN "none"
             ELSE "updateSceneObject"
        ELSE IF DistSq(s.cameraState.position, c.position) < EpsSq
                /\ DistSq(s.cameraState.target, c.target) < EpsSq THEN "none"
        ELSE IF c.position = ZERO3 /\ c.target = ZERO3 THEN "none"
        ELSE "syncCameraState"

\* handleControlsChange, with the live camera c and its rotation rot
handleControlsChange(c, s, rot) ==
    LET w == ControlsWrite(c, s)
        obj == activeCameraObj(s)
    IN  IF w = "updateSceneObject"
        THEN updateSceneObject(s, s.activeCameraId,
                 [transform |-> Merge(obj.transform, [position |-> c.position, rotation |-> rot])])
        ELSE IF w = "syncCameraState"
        THEN syncCameraState(s, [position |-> c.position, target |-> c.target, fov |-> c.fov])
        ELSE s

(* ---------------------------- tripoService ------------------------------ *)

\* a string is the sequence of its characters
UpperCase == <<"A", "B", "C", "D", "E", "F", "G", "H", "I", "J", "K", "L", "M", "N", "O", "P", "Q", "R", "S", "T", "U", "V", "W", "X", "Y", "Z">>
LowerCase == <<"a", "b", "c", "d", "e", "f", "g", "h", "i", "j", "k", "l", "m", "n", "o", "p", "q", "r", "s", "t", "u", "v", "w", "x", "y", "z">>
WhiteSpace == {" ", "\t", "\n"}

\* a status that is undefined or null
NoStatus == <<"undefined">>

\* String.prototype.toLowerCase
toLowerCase(str) ==
    LET lower(ch) ==
            IF \E i \in 1..Len(UpperCase) : UpperCase[i] = ch
            THEN LowerCase[CHOOSE i \in 1..Len(UpperCase) : UpperCase[i] = ch]
            ELSE ch
    IN  Map(lower, str)

\* String.prototype.trim
RECURSIVE trimStart(_)
trimStart(str) ==
    IF str # <<>> /\ Head(str) \in WhiteSpace THEN trimStart(Tail(str)) ELSE str

RECURSIVE trimEnd(_)
trimEnd(str) ==
    IF str # <<>> /\ str[Len(str)] \in WhiteSpace
    THEN trimEnd(SubSeq(str, 1, Len(str) - 1))
    ELSE str

trim(str) == trimEnd(trimStart(str))

\* the case labels of mapTripoStatus's switch that return PENDING
PendingCases ==
    {<<"q", "u", "e", "u", "e", "d">>,
     <<"p", "e", "n", "d", "i", "n", "g">>,
     <<"c", "r", "e", "a", "t", "e", "d">>}

\* the case labels that return PROCESSING
ProcessingCases ==
    {<<"r", "u", "n", "n", "i", "n", "g">>,
     <<"s", "t", "a", "r", "t", "i", "n", "g">>,
     <<"p", "r", "o", "c", "e", "s", "s", "i", "n", "g">>,
     <<"i", "n", "i", "t", "i", "a", "l", "i", "z", "i", "n", "g">>}

\* the case labels that return COMPLETED
CompletedCases ==
    {<<"s", "u", "c", "c", "e", "s", "s">>,
     <<"s", "u", "c", "c", "e", "e", "d", "e", "d">>,
     <<"f", "i", "n", "i", "s", "h", "e", "d">>,
     <<"c", "o", "m", "p", "l", "e", "t", "e", "d">>}

\* the case labels that return ERROR
ErrorCases ==
    {<<"f", "a", "i", "l", "e", "d">>,
     <<"b", "a", "n", "n", "e", "d">>,
     <<"e", "x", "p", "i", "r", "e", "d">>,
     <<"c", "a", "n", "c", "e", "l", "l", "e", "d">>,
     <<"u", "n", "k", "n", "o", "w", "n">>,
     <<"u", "n", "k", "n", "o", "w", "n", "_", "e", "r", "r", "o", "r">>}

\* mapTripoStatus that compares the status as it came
mapTripoStatus_noTrim(status) ==
    IF status = NoStatus \/ status = <<>> THEN "pending"
    ELSE LET s == toLowerCase(status)
         IN  IF s \in PendingCases THEN "pending"
             ELSE IF s \in ProcessingCases THEN "processing"
             ELSE IF s \in CompletedCases THEN "completed"
             ELSE IF s \in ErrorCases THEN "error"
             ELSE "pending"

mapTripoStatus(status) ==
    IF status = NoStatus \/ status = <<>> THEN "pending"
    ELSE LET s == trim(toLowerCase(status))
         IN  IF s \in PendingCases THEN "pending"
             ELSE IF s \in ProcessingCases THEN "processing"
             ELSE IF s \in CompletedCases THEN "completed"
             ELSE IF s \in ErrorCases THEN "error"
             ELSE "pending"

\* String.prototype.includes
includes(str, sub) ==
    \E i \in 1..(Len(str) - Len(sub) + 1) : SubSeq(str, i, i + Len(sub) - 1) = sub

\* a header that is not set: headers.get returns null
NoHeader == <<"null">>

\* response.ok
Ok(response) == response.status \in 200..299

\* fetchWithRetry retrying every response that is not ok
retryable_notOk(o) == o.kind = "error" \/ ~Ok(o)

\* the attempts fetchWithRetry's catch block gets: fetch rejected, or the
\* response is a server error, for which the try block throws
retryable(o) == o.kind = "error" \/ (~Ok(o) /\ o.status >= 500)

\* the error the catch block gets for the outcome o
caught(o) ==
    IF o.kind = "error" THEN o
    ELSE [kind |-> "error", name |-> "Error", message |-> <<"Server Error", o.status>>]

\* lastError before the first attempt
NoError == [kind |-> "error", name |-> "undefined", message |-> <<"undefined", 0>>]

\* fetchWithRetry from attempt i on; outcomes[i + 1] is what fetch gives at
\* attempt i: a response, or an error (a network failure, or the abort of the
\* timeout). The result is the response returned or the error thrown.
RECURSIVE fetchWithRetryFrom(_, _, _, _)
fetchWithRetryFrom(outcomes, retries, i, lastError) ==
    IF i >= retries THEN lastError
    ELSE LET o == outcomes[i + 1]
         IN  IF o.kind = "response"
             THEN IF ~Ok(o) /\ o.status >= 500
                  THEN fetchWithRetryFrom(outcomes, retries, i + 1,
                           [kind |-> "error", name |-> "Error",
                            message |-> <<"Server Error", o.status>>])
                  ELSE o
             ELSE fetchWithRetryFrom(outcomes, retries, i + 1, o)

fetchWithRetry(outcomes, retries) ==
    fetchWithRetryFrom(outcomes, retries, 0, NoError)

\* testApiConnection without the reading of 404 and 400 as an answer of the API
testApiConnection_strict(outcomes) ==
    LET response == fetchWithRetry(outcomes, 1)
        contentType == response.contentType
    IN  IF response.kind = "error"
        THEN [success |-> FALSE,
              message |-> IF response.name = "AbortError" THEN <<"timeout", 0>>
                          ELSE IF response.message[1] = "Failed to fetch"
                          THEN <<"cannot connect", 0>>
                          ELSE response.message]
        ELSE IF contentType # NoHeader /\ includes(contentType, <<"t", "e", "x", "t", "/", "h", "t", "m", "l">>)
        THEN [success |-> FALSE, message |-> <<"returned HTML", 0>>]
        ELSE IF response.status = 401 \/ response.status = 403
        THEN [success |-> FALSE, message |-> <<"API key invalid", 0>>]
        ELSE IF Ok(response)
        THEN [success |-> TRUE, message |-> <<"service ok", 0>>]
        ELSE [success |-> FALSE, message |-> <<"unknown status", response.status>>]

\* testApiConnection with retries = 1; its messages are named by what they say
testApiConnection(outcomes) ==
    LET response == fetchWithRetry(outcomes, 1)
        contentType == response.contentType
    IN  IF response.kind = "error"
        THEN [success |-> FALSE,
              message |-> IF response.name = "AbortError" THEN <<"timeout", 0>>
                          ELSE IF response.message[1] = "Failed to fetch"
                          THEN <<"cannot connect", 0>>
                          ELSE response.message]
        ELSE IF contentType # NoHeader /\ includes(contentType, <<"t", "e", "x", "t", "/", "h", "t", "m", "l">>)
        THEN [success |-> FALSE, message |-> <<"returned HTML", 0>>]
        ELSE IF response.status = 404 \/ response.status = 400
        THEN [success |-> TRUE, message |-> <<"backend ok", 0>>]
        ELSE IF response.status = 401 \/ response.status = 403
        THEN [success |-> FALSE, message |-> <<"API key invalid", 0>>]
        ELSE IF Ok(response)
        THEN [success |-> TRUE, message |-> <<"service ok", 0>>]
        ELSE [success |-> FALSE, message |-> <<"unknown status", response.status>>]

\* maxAttempts of pollTripoTask
maxAttempts == 150

\* the modelUrl of onUpdate(AssetStatus.ERROR): the argument is left out
UndefinedUrl == "undefined"

\* an output field is a string, [str |-> url], or an object, [url |-> url]
FieldUrl(output, field) ==
    IF field \notin DOMAIN output THEN UndefinedUrl
    ELSE IF "str" \in DOMAIN output[field] THEN output[field].str
    ELSE IF "url" \in DOMAIN output[field] THEN output[field].url
    ELSE UndefinedUrl

\* a field that is a string
FieldString(output, field) ==
    IF field \in DOMAIN output /\ "str" \in DOMAIN output[field]
    THEN output[field].str ELSE UndefinedUrl

\* the extraction of the model URL from data.output in pollTripoTask
extractModelUrl(output) ==
    LET pbr == FieldUrl(output, "pbr_model")
        base == IF pbr = UndefinedUrl THEN FieldUrl(output, "base_model") ELSE pbr
    IN  IF base # UndefinedUrl THEN base
        ELSE IF FieldString(output, "model") # UndefinedUrl THEN FieldString(output, "model")
        ELSE FieldString(output, "glb")

\* a safety break that clears the interval without a word to the caller
pollTimeout_silent ==
    [clear |-> TRUE, call |-> FALSE, status |-> "error", modelUrl |-> UndefinedUrl]

\* what the safety break of pollTripoTask does when attempts is above
\* maxAttempts
pollTimeout ==
    [clear |-> TRUE, call |-> TRUE, status |-> "error", modelUrl |-> UndefinedUrl]

\* what pollTripoTask does with the body of a status response: the call of
\* onUpdate it makes, if any, and whether it clears the interval
pollResult(body) ==
    IF body.code # 0
    THEN [clear |-> TRUE, call |-> TRUE, status |-> "error", modelUrl |-> UndefinedUrl]
    ELSE IF "data" \notin DOMAIN body
    THEN [clear |-> TRUE, call |-> TRUE, status |-> "error", modelUrl |-> UndefinedUrl]
    ELSE LET appStatus == mapTripoStatus(body.data.status)
             modelUrl == extractModelUrl(body.data.output)
         IN  IF appStatus = "pending" \/ appStatus = "processing"
             THEN [clear |-> FALSE, call |-> TRUE, status |-> appStatus, modelUrl |-> NoUrl]
             ELSE IF appStatus = "completed"
             THEN IF modelUrl # UndefinedUrl
                  THEN [clear |-> TRUE, call |-> TRUE, status |-> "completed",
                        modelUrl |-> modelUrl]
                  ELSE [clear |-> TRUE, call |-> TRUE, status |-> "error",
                        modelUrl |-> UndefinedUrl]
             ELSE [clear |-> TRUE, call |-> TRUE, status |-> "error", modelUrl |-> UndefinedUrl]

\* the recorded streak of transient failures is counted up to StreakCap
StreakCap == 5

\* the statuses on which pollTripoTask aborts at once
FailFast(status) == status >= 500 \/ status = 401 \/ status = 403 \/ status = 404

\* what pollTripoTask does with a status response that is not ok, after it
\* counted the error
pollHttpError(status, consecutiveErrors) ==
    IF status >= 500 \/ status = 401 \/ status = 403 \/ status = 404 \/ consecutiveErrors > 3
    THEN [clear |-> TRUE, call |-> TRUE, status |-> "error", modelUrl |-> UndefinedUrl]
    ELSE [clear |-> FALSE, call |-> FALSE, status |-> "error", modelUrl |-> UndefinedUrl]

\* what the catch block of pollTripoTask does, after it counted the error
pollException(consecutiveErrors) ==
    IF consecutiveErrors > 3
    THEN [clear |-> TRUE, call |-> TRUE, status |-> "error", modelUrl |-> UndefinedUrl]
    ELSE [clear |-> FALSE, call |-> FALSE, status |-> "error", modelUrl |-> UndefinedUrl]

(* ---------------------------- inputs ------------------------------------ *)

\* partial scene objects passed to updateSceneObject by the panels
ObjUpdates ==
    {[locked |-> TRUE], [locked |-> FALSE],
     [transform |-> [position |-> <<100, 0, 0>>, rotation |-> ZERO3, scale |-> ONE3]]}

\* the partial scene objects used in runs of the history marker
HistUpdates ==
    {[locked |-> TRUE],
     [transform |-> [position |-> <<100, 0, 0>>, rotation |-> ZERO3, scale |-> ONE3]]}

\* partial transforms passed to updateSelectedObjectTransform
TransformUpdates == {[position |-> <<100, 0, 0>>], [rotation |-> <<-10, 0, 0>>]}

RenderUpdates == {[gridVisible |-> TRUE], [autoRotate |-> TRUE]}

\* partial camera states passed to setCameraState
CameraUpdates == {[position |-> <<300, 100, 0>>], [fov |-> 45]}

AssetUpdates ==
    {[status |-> "completed", modelUrl |-> "model.glb"],
     [errorMsg |-> "API Error"]}

NewAsset(id) ==
    [id |-> id, originalName |-> "a.png", imageUrl |-> "blob:a",
     status |-> "pending", modelUrl |-> NoUrl, createdAt |-> 0]

SceneIds(s) == {s.sceneObjects[i].id : i \in 1..Len(s.sceneObjects)}

CameraIds(s) ==
    {s.sceneObjects[i].id : i \in {j \in 1..Len(s.sceneObjects) : s.sceneObjects[j].type = "camera"}}

AssetIds(s) == {s.assets[i].id : i \in 1..Len(s.assets)}

\* the asset with the given id
AssetById(s, id) ==
    LET has(a) == a.id = id
    IN  Find(has, s.assets)

\* String.prototype.toUpperCase, to write a status in capitals
toUpperCase(str) ==
    LET upper(ch) ==
            IF \E i \in 1..Len(LowerCase) : LowerCase[i] = ch
            THEN UpperCase[CHOOSE i \in 1..Len(LowerCase) : LowerCase[i] = ch]
            ELSE ch
    IN  Map(upper, str)

\* the ways the vendor may write one status word: as it is, in capitals, with
\* a capital first letter, and with white space before, after and around it
StatusVariants(word) ==
    {word,
     toUpperCase(word),
     toUpperCase(SubSeq(word, 1, 1)) \o Tail(word),
     <<" ">> \o word,
     word \o <<" ">>,
     <<"\t", " ">> \o toUpperCase(word) \o <<"\n">>}

\* statuses the switch has no case for, the empty string and a missing status
OtherStatuses ==
    {<<>>, NoStatus, <<" ">>,
     <<"w", "e", "i", "r", "d", "s", "t", "a", "t", "e">>,
     <<"i", "n", " ", "p", "r", "o", "g", "r", "e", "s", "s">>,
     <<"d", "o", "n", "e">>,
     <<"c", "a", "n", "c", "e", "l", "e", "d">>,
     <<"s", "u", "c", "c", "e", "s", "s", "!">>}

\* the HTTP statuses and content types the probe request is answered with
ProbeStatuses == {200, 204, 301, 400, 401, 403, 404, 418, 429, 500, 502, 503}

ProbeContentTypes ==
    {NoHeader,
     <<"a", "p", "p", "l", "i", "c", "a", "t", "i", "o", "n", "/", "j", "s", "o", "n">>,
     <<"t", "e", "x", "t", "/", "h", "t", "m", "l">>,
     <<"t", "e", "x", "t", "/", "h", "t", "m", "l", ";", " ", "c", "h", "a", "r", "s", "e", "t", "=", "u", "t", "f", "-", "8">>,
     <<"t", "e", "x", "t", "/", "p", "l", "a", "i", "n">>}

\* what fetch gives for the probe: a response, or an error
ProbeOutcomes ==
    {[kind |-> "response", status |-> st, contentType |-> ct] :
         st \in ProbeStatuses, ct \in ProbeContentTypes}
    \cup {[kind |-> "error", name |-> "AbortError", message |-> <<"aborted", 0>>],
          [kind |-> "error", name |-> "TypeError", message |-> <<"Failed to fetch", 0>>],
          [kind |-> "error", name |-> "Error", message |-> <<"other", 0>>]}

\* what fetch gives for a request of fetchWithRetry: a response, the abort
\* of the timeout, or a network failure
RetryOutcomes ==
    {[kind |-> "response", status |-> st] : st \in {200, 204, 401, 403, 404, 429, 500, 503}}
    \cup {[kind |-> "error", name |-> "AbortError", message |-> <<"aborted", 0>>],
          [kind |-> "error", name |-> "TypeError", message |-> <<"Failed to fetch", 0>>]}

\* what fetch gives for a status request of pollTripoTask
PollFetchOutcomes ==
    {[kind |-> "response", status |-> 200],
     [kind |-> "response", status |-> 429],
     [kind |-> "response", status |-> 404],
     [kind |-> "error"]}

\* the output of a finished task
ModelOutput == [pbr_model |-> [url |-> "remote.glb"]]

\* the bodies of the status responses
PollBodies ==
    {[code |-> 0, data |-> [status |-> <<"q", "u", "e", "u", "e", "d">>, output |-> <<>>]],
     [code |-> 0, data |-> [status |-> <<"r", "u", "n", "n", "i", "n", "g">>, output |-> <<>>]],
     [code |-> 0, data |-> [status |-> <<"s", "u", "c", "c", "e", "s", "s">>, output |-> ModelOutput]],
     [code |-> 0, data |-> [status |-> <<"s", "u", "c", "c", "e", "s", "s">>, output |-> <<>>]],
     [code |-> 0, data |-> [status |-> <<"f", "a", "i", "l", "e", "d">>, output |-> <<>>]],
     [code |-> 0],
     [code |-> 2001]}

\* the bodies of the status responses of a run that is followed to its end:
\* the task waits, reports a status mapTripoStatus does not know, is done,
\* or failed
RunBodies ==
    {[code |-> 0, data |-> [status |-> <<"q", "u", "e", "u", "e", "d">>, output |-> <<>>]],
     [code |-> 0, data |-> [status |-> <<"p", "a", "u", "s", "e", "d">>, output |-> <<>>]],
     [code |-> 0, data |-> [status |-> <<"s", "u", "c", "c", "e", "s", "s">>, output |-> ModelOutput]],
     [code |-> 0, data |-> [status |-> <<"f", "a", "i", "l", "e", "d">>, output |-> <<>>]]}

\* pollResult on each of the bodies, computed once
pollResults == [body \in PollBodies \cup RunBodies |-> pollResult(body)]

StatusInputs ==
    UNION {StatusVariants(word) :
              word \in PendingCases \cup ProcessingCases \cup CompletedCases \cup ErrorCases}
    \cup OtherStatuses

(* ---------------------------- service values ---------------------------- *)

\* no generation was started: phase is where handleGenerate is, active says
\* that the interval of pollTripoTask is set, inflight holds the status
\* requests that were started and not yet handled (each under the smallest
\* number no other request in flight has), downloads the model
\* downloads the onUpdate callbacks wait for.  The last four fields record
\* the run: handled is the kind of the outcome handled last ("transient",
\* "failfast", "body" or "timeout"), streak the number of transient failures
\* handled since the last status response whose body was read (counted up
\* to StreakCap), terminals the
\* number of onUpdate calls with Completed or Error, late whether onUpdate
\* was called while the interval was already cleared
NoPoll ==
    [phase |-> "idle", assetId |-> NULL, active |-> FALSE, attempts |-> 0,
     consecutiveErrors |-> 0, inflight |-> {}, downloads |-> {},
     handled |-> "none", streak |-> 0, terminals |-> 0, late |-> FALSE]

\* no service function was called
NoCall == [fn |-> "none", arg |-> "none", done |-> TRUE, result |-> "none"]

(* ---------------------------- history marker ----------------------------- *)

\* mark.on: a sequence of mark.n scene-mutating operations has run since the
\* undoable state was mark.base
NoMark == [on |-> FALSE, base |-> Snapshot(InitStore), n |-> 0]

\* a marked sequence is made of scene-mutating operations only: it goes on
\* with a counted operation or with a step that leaves the history alone
MarkAllows(t, counted) ==
    \/ ~mark.on
    \/ counted
    \/ Snapshot(t) = Snapshot(store) /\ t.past = store.past /\ t.future = store.future

MarkStep(t, counted) ==
    IF mark.on /\ counted THEN [mark EXCEPT !.n = @ + 1] ELSE mark

(* ---------------------------- activation marker -------------------------- *)

\* preActivation.left: the last store operation switched from object-view
\* mode to free mode; preActivation.entered: it changed activeCameraId to
\* a camera id.
\* preActivation.valid: object-view mode was entered when cameraState was
\* preActivation.cameraState, and neither setCameraState nor resetCamera ran
\* since; it stays valid in the state that follows the deactivation
ActivationStep(t, op) ==
    LET left == store.activeCameraId # NULL /\ t.activeCameraId = NULL
        entered == store.activeCameraId # t.activeCameraId /\ t.activeCameraId # NULL
    IN  IF op \in {"setCameraState", "resetCamera"}
        THEN [preActivation EXCEPT !.valid = FALSE, !.left = left, !.entered = entered]
        ELSE IF store.activeCameraId = NULL /\ t.activeCameraId # NULL
        THEN [valid |-> TRUE, cameraState |-> store.cameraState, left |-> left,
              entered |-> entered]
        ELSE IF store.activeCameraId = NULL
        THEN [preActivation EXCEPT !.valid = FALSE, !.left = left, !.entered = entered]
        ELSE [preActivation EXCEPT !.left = left, !.entered = entered]

(* ---------------------------- actions ------------------------------------ *)

\* zustand set() followed by the re-render and effects of CameraManager
CommitStore(t, c, camWritten, op, id, counted) ==
    /\ budget > 0
    /\ MarkAllows(t, counted)
    /\ budget' = budget - 1
    /\ store' = t
    /\ cm' = RunEffects(c, store, t, camWritten)
    /\ lastOp' = op
    /\ lastId' = id
    /\ mark' = MarkStep(t, counted)
    /\ preActivation' = ActivationStep(t, op)

\* a set() of an operation that sets no timer
Commit(t, c, camWritten, op, id, counted) ==
    /\ CommitStore(t, c, camWritten, op, id, counted)
    /\ UNCHANGED service

AddAsset ==
    /\ nextId <= MaxId
    /\ nextId' = nextId + 1
    /\ Commit(addAsset(store, NewAsset(nextId)), cm, FALSE, "addAsset", nextId, FALSE)

UpdateAsset(id, updates) ==
    /\ Commit(updateAsset(store, id, updates), cm, FALSE, "updateAsset", id, FALSE)
    /\ UNCHANGED nextId

RemoveAsset(id) ==
    /\ Commit(removeAsset(store, id), cm, FALSE, "removeAsset", id, FALSE)
    /\ UNCHANGED nextId

AddModelToScene ==
    /\ nextId <= MaxId
    /\ nextId' = nextId + 1
    /\ Commit(addModelToScene(store, nextId, "model.glb", "New Model"), cm, FALSE,
              "addModelToScene", nextId, TRUE)

AddLightToScene ==
    /\ nextId <= MaxId
    /\ nextId' = nextId + 1
    /\ Commit(addLightToScene(store, nextId), cm, FALSE, "addLightToScene", nextId, TRUE)

AddCameraToScene ==
    /\ nextId <= MaxId
    /\ nextId' = nextId + 1
    /\ Commit(addCameraToScene(store, nextId), cm, FALSE, "addCameraToScene", nextId, TRUE)

UpdateSceneObject(id, updates) ==
    /\ Commit(updateSceneObject(store, id, updates), cm, FALSE, "updateSceneObject", id, TRUE)
    /\ UNCHANGED nextId

RemoveSceneObject(id) ==
    /\ Commit(removeSceneObject(store, id), cm, FALSE, "removeSceneObject", id, TRUE)
    /\ UNCHANGED nextId

ClearScene ==
    /\ Commit(clearScene(store), cm, FALSE, "clearScene", NULL, TRUE)
    /\ UNCHANGED nextId

SetSelectedObjectId(id) ==
    /\ Commit(setSelectedObjectId(store, id), cm, FALSE, "setSelectedObjectId", id, FALSE)
    /\ UNCHANGED nextId

SetActiveCameraId(id) ==
    /\ Commit(setActiveCameraId(store, id), cm, FALSE, "setActiveCameraId", id, FALSE)
    /\ UNCHANGED nextId

UpdateSelectedObjectTransform(updates) ==
    /\ Commit(updateSelectedObjectTransform(store, updates), cm, FALSE,
              "updateSelectedObjectTransform", store.selectedObjectId,
              updateSelectedObjectTransform(store, updates) # store)
    /\ UNCHANGED nextId

UpdateRenderSettings(updates) ==
    /\ Commit(updateRenderSettings(store, updates), cm, FALSE, "updateRenderSettings", NULL, TRUE)
    /\ UNCHANGED nextId

SetCameraState(newState) ==
    /\ Commit(setCameraState(store, newState), cm, TRUE, "setCameraState", NULL, FALSE)
    /\ UNCHANGED nextId

ResetCamera ==
    /\ Commit(resetCamera(store), cm, TRUE, "resetCamera", NULL, FALSE)
    /\ UNCHANGED nextId

Undo ==
    /\ Commit(undo(store), cm, FALSE, "undo", NULL, FALSE)
    /\ UNCHANGED nextId

Redo ==
    /\ Commit(redo(store), cm, FALSE, "redo", NULL, FALSE)
    /\ UNCHANGED nextId

\* an orbit gesture leaves the live camera at pos looking at target with
\* rotation rot; its end event calls handleControlsChange
Orbit(pos, target, rot) ==
    LET c == [cm EXCEPT !.position = pos, !.target = target]
        w == ControlsWrite(c, store)
    IN  /\ Commit(handleControlsChange(c, store, rot), c, w = "syncCameraState",
                  "handleControlsChange", store.activeCameraId, w = "updateSceneObject")
        /\ UNCHANGED nextId

\* the 50ms timeout set by the store -> camera sync
ResetTimer ==
    /\ cm.timers > 0
    /\ cm' = [cm EXCEPT !.isSyncingStoreToCamera = FALSE,
                        !.isTransitioning = FALSE,
                        !.timers = @ - 1]
    /\ lastOp' = "resetTimer"
    /\ lastId' = NULL
    /\ UNCHANGED <<store, nextId, mark, preActivation, budget>>
    /\ UNCHANGED service

\* start counting a sequence of scene-mutating operations
Mark ==
    /\ ~mark.on
    /\ mark' = [on |-> TRUE, base |-> Snapshot(store), n |-> 0]
    /\ UNCHANGED <<store, nextId, cm, preActivation, lastOp, lastId, budget>>
    /\ UNCHANGED service

SetAssets(assets) ==
    /\ Commit(setAssets(store, assets), cm, FALSE, "setAssets", NULL, FALSE)
    /\ UNCHANGED nextId

\* addNotification: the set() and the setTimeout its updater calls
AddNotification(type, message) ==
    /\ CommitStore(addNotification(store, nextId, type, message), cm, FALSE,
                   "addNotification", nextId, FALSE)
    /\ nextId' = nextId + 1
    /\ timeouts' = addNotificationTimeout(timeouts, nextId, now)
    /\ notified' = notified \cup {[id |-> nextId, at |-> now, dismissed |-> FALSE]}
    /\ UNCHANGED <<now, poll, call>>

RemoveNotification(id) ==
    /\ CommitStore(removeNotification(store, id), cm, FALSE, "removeNotification", id, FALSE)
    /\ notified' = {IF g.id = id THEN [g EXCEPT !.dismissed = TRUE] ELSE g : g \in notified}
    /\ UNCHANGED <<nextId, now, timeouts, poll, call>>

\* the timeout t is due and its callback runs
ExpireNotification(t) ==
    /\ t \in timeouts
    /\ t.due <= now
    /\ CommitStore(expireNotification(store, t.id), cm, FALSE, "expireNotification", t.id, FALSE)
    /\ timeouts' = timeouts \ {t}
    /\ UNCHANGED <<nextId, now, notified, poll, call>>

\* the times the clock is moved to: the next ms, each pending timeout's due
\* time and the ms before it
TimeTargets == {now + 1} \cup {t.due : t \in timeouts} \cup {t.due - 1 : t \in timeouts}

\* time passes up to t; a due timeout fires before time passes it
AdvanceTime(t) ==
    /\ budget > 0
    /\ t > now
    /\ \A x \in timeouts : t <= x.due
    /\ now' = t
    /\ budget' = budget - 1
    /\ lastOp' = "advanceTime"
    /\ lastId' = NULL
    /\ UNCHANGED <<store, nextId, cm, mark, preActivation, timeouts, notified, poll, call>>

\* handleGenerate's onUpdate callback up to its first await, run after
\* pollTripoTask left its own state at p
OnUpdate(p, status, remoteModelUrl) ==
    LET id == p.assetId
        updated == updateAsset(store, id, [status |-> status, modelUrl |-> remoteModelUrl])
    IN  IF status = "completed" /\ remoteModelUrl \notin {NoUrl, UndefinedUrl}
        THEN /\ store' = addNotification(store, nextId, "info", "downloading")
             /\ timeouts' = addNotificationTimeout(timeouts, nextId, now)
             /\ notified' = notified \cup {[id |-> nextId, at |-> now, dismissed |-> FALSE]}
             /\ nextId' = nextId + 1
             /\ poll' = [p EXCEPT !.downloads = @ \cup {[n |-> nextId, url |-> remoteModelUrl]}]
        ELSE IF status = "error"
        THEN /\ store' = addNotification(updateAsset(updated, id, [errorMsg |-> "API Error"]),
                                          nextId, "error", "generation failed")
             /\ timeouts' = addNotificationTimeout(timeouts, nextId, now)
             /\ notified' = notified \cup {[id |-> nextId, at |-> now, dismissed |-> FALSE]}
             /\ nextId' = nextId + 1
             /\ poll' = p
        ELSE /\ store' = updated
             /\ poll' = p
             /\ UNCHANGED <<nextId, timeouts, notified>>

\* pollTripoTask handled an outcome: it clears the interval and calls onUpdate
\* as res says
PollHandled(p, res) ==
    LET terminal == res.call /\ res.status \in {"completed", "error"}
        q == [p EXCEPT !.active = IF res.clear THEN FALSE ELSE @,
                       !.terminals = IF terminal THEN @ + 1 ELSE @,
                       !.late = @ \/ (res.call /\ ~p.active)]
    IN  /\ IF res.call
           THEN OnUpdate(q, res.status, res.modelUrl)
           ELSE /\ poll' = q
                /\ UNCHANGED <<store, nextId, timeouts, notified>>
        /\ cm' = RunEffects(cm, store, store', FALSE)
        /\ lastOp' = IF res.call THEN "onUpdate" ELSE "pollError"
        /\ lastId' = p.assetId
        /\ UNCHANGED <<mark, preActivation, budget, now, call>>

\* handleGenerate up to its awaits, with a connection that is or tests ok
HandleGenerate(assetId) ==
    /\ poll.phase = "idle"
    /\ AssetById(store, assetId) # Undefined
    /\ AssetById(store, assetId).status \in {"pending", "error"}
    /\ store' = updateAsset(store, assetId, [status |-> "processing"])
    /\ poll' = [poll EXCEPT !.phase = "creating", !.assetId = assetId]
    /\ cm' = RunEffects(cm, store, store', FALSE)
    /\ lastOp' = "handleGenerate"
    /\ lastId' = assetId
    /\ UNCHANGED <<nextId, mark, preActivation, budget, now, timeouts, notified, call>>

\* the upload and the task creation succeeded: pollTripoTask sets its interval
StartPolling ==
    /\ poll.phase = "creating"
    /\ poll' = [poll EXCEPT !.phase = "polling", !.active = TRUE]
    /\ lastOp' = "pollTripoTask"
    /\ lastId' = poll.assetId
    /\ UNCHANGED <<store, nextId, cm, mark, preActivation, budget, now, timeouts, notified, call>>

\* the upload or the task creation threw: the catch block of handleGenerate
GenerateFails ==
    /\ poll.phase = "creating"
    /\ store' = addNotification(
                    updateAsset(store, poll.assetId,
                                [status |-> "error", errorMsg |-> "Upload Failed"]),
                    nextId, "error", "Upload Failed")
    /\ timeouts' = addNotificationTimeout(timeouts, nextId, now)
    /\ notified' = notified \cup {[id |-> nextId, at |-> now, dismissed |-> FALSE]}
    /\ nextId' = nextId + 1
    /\ poll' = [poll EXCEPT !.phase = "failed"]
    /\ cm' = RunEffects(cm, store, store', FALSE)
    /\ lastOp' = "handleGenerate"
    /\ lastId' = poll.assetId
    /\ UNCHANGED <<mark, preActivation, budget, now, call>>

\* the callback of the interval of pollTripoTask up to its first await: it
\* counts the attempt and, up to maxAttempts, starts a status request
IntervalCallback ==
    LET n == poll.attempts + 1
        used == {r.n : r \in poll.inflight}
        free == CHOOSE k \in 1..(Cardinality(used) + 1) :
                    k \notin used /\ \A j \in 1..(k - 1) : j \in used
    IN  IF n > maxAttempts
        THEN PollHandled([poll EXCEPT !.attempts = n, !.handled = "timeout"], pollTimeout)
        ELSE /\ poll' = [poll EXCEPT !.attempts = n,
                                     !.inflight = @ \cup {[n |-> free, stage |-> "fetch"]}]
             /\ lastOp' = "pollTick"
             /\ lastId' = poll.assetId
             /\ UNCHANGED <<store, nextId, cm, mark, preActivation, budget, now,
                            timeouts, notified, call>>

\* the ticks of a run that is followed for its first MaxPollTicks attempts
PollTick ==
    /\ poll.active
    /\ poll.attempts < MaxPollTicks
    /\ IntervalCallback

\* the ticks of a run that is followed to its end, with at most MaxInflight
\* status requests in flight together
PollTickRun ==
    /\ poll.active
    /\ Cardinality(poll.inflight) < MaxInflight
    /\ IntervalCallback

\* the fetch of the status request r settles with the outcome o
FetchResolves(r, o) ==
    /\ r \in poll.inflight
    /\ r.stage = "fetch"
    /\ LET counted == [poll EXCEPT !.inflight = @ \ {r},
                                   !.consecutiveErrors = @ + 1,
                                   !.streak = IF @ < StreakCap THEN @ + 1 ELSE @,
                                   !.handled = IF o.kind = "response" /\ FailFast(o.status)
                                               THEN "failfast" ELSE "transient"]
       IN  IF o.kind = "error"
           THEN PollHandled(counted, pollException(counted.consecutiveErrors))
           ELSE IF ~Ok(o)
           THEN PollHandled(counted, pollHttpError(o.status, counted.consecutiveErrors))
           ELSE /\ poll' = [poll EXCEPT !.inflight = (@ \ {r}) \cup {[r EXCEPT !.stage = "json"]},
                                        !.consecutiveErrors = 0]
                /\ lastOp' = "pollResponse"
                /\ lastId' = poll.assetId
                /\ UNCHANGED <<store, nextId, cm, mark, preActivation, budget, now,
                               timeouts, notified, call>>

\* response.json() of the status request r settles with the body
JsonResolves(r, body) ==
    /\ r \in poll.inflight
    /\ r.stage = "json"
    /\ PollHandled([poll EXCEPT !.inflight = @ \ {r}, !.streak = 0, !.handled = "body"],
                   pollResults[body])

\* response.json() of the status request r throws
JsonThrows(r) ==
    /\ r \in poll.inflight
    /\ r.stage = "json"
    /\ LET counted == [poll EXCEPT !.inflight = @ \ {r},
                                   !.consecutiveErrors = @ + 1,
                                   !.streak = IF @ < StreakCap THEN @ + 1 ELSE @,
                                   !.handled = "transient"]
       IN  PollHandled(counted, pollException(counted.consecutiveErrors))

\* downloadTripoModel of onUpdate settles: with a blob, or with an error whose
\* message holds 404 or does not; the callback goes on after its await
DownloadResolves(d, result) ==
    /\ d \in poll.downloads
    /\ LET id == poll.assetId
           modelUrl == IF result = "blob" THEN "blob:model" ELSE d.url
           notice == IF result = "blob" THEN <<"success", "ready">>
                     ELSE IF result = "404" THEN <<"error", "direct mode">>
                     ELSE <<"info", "online link">>
       IN  store' = addModelToScene(
                        updateAsset(addNotification(store, nextId, notice[1], notice[2]),
                                    id, [status |-> "completed", modelUrl |-> modelUrl]),
                        nextId + 1, modelUrl, "a.png")
    /\ timeouts' = addNotificationTimeout(timeouts, nextId, now)
    /\ notified' = notified \cup {[id |-> nextId, at |-> now, dismissed |-> FALSE]}
    /\ nextId' = nextId + 2
    /\ poll' = [poll EXCEPT !.downloads = @ \ {d}]
    /\ cm' = RunEffects(cm, store, store', FALSE)
    /\ lastOp' = "downloadTripoModel"
    /\ lastId' = poll.assetId
    /\ UNCHANGED <<mark, preActivation, budget, now, call>>

\* a call of mapTripoStatus returns
MapTripoStatus ==
    /\ call.fn = "mapTripoStatus"
    /\ ~call.done
    /\ call' = [call EXCEPT !.done = TRUE, !.result = mapTripoStatus(call.arg)]
    /\ UNCHANGED <<store, nextId, cm, mark, preActivation, lastOp, lastId, budget,
                   now, timeouts, notified, poll>>

\* a call of testApiConnection returns
TestApiConnection ==
    /\ call.fn = "testApiConnection"
    /\ ~call.done
    /\ call' = [call EXCEPT !.done = TRUE, !.result = testApiConnection(call.arg)]
    /\ UNCHANGED <<store, nextId, cm, mark, preActivation, lastOp, lastId, budget,
                   now, timeouts, notified, poll>>

\* fetchWithRetry, one loop iteration up to the return or the catch: the
\* request i is started and settles with o
FetchAttempt(o) ==
    /\ call.fn = "fetchWithRetry"
    /\ call.pc = "loop"
    /\ call.i < call.arg
    /\ call' = IF retryable(o)
               THEN [call EXCEPT !.seen = Append(@, o), !.lastError = caught(o),
                                 !.pc = "backoff"]
               ELSE [call EXCEPT !.seen = Append(@, o), !.pc = "done",
                                 !.done = TRUE, !.result = o]
    /\ UNCHANGED <<store, nextId, cm, mark, preActivation, lastOp, lastId, budget,
                   now, timeouts, notified, poll>>

\* the backoff timer of the catch block fires and the loop goes on
Backoff ==
    /\ call.fn = "fetchWithRetry"
    /\ call.pc = "backoff"
    /\ call' = [call EXCEPT !.backoffs = Append(@, 1000 * 2 ^ call.i),
                            !.i = @ + 1, !.pc = "loop"]
    /\ UNCHANGED <<store, nextId, cm, mark, preActivation, lastOp, lastId, budget,
                   now, timeouts, notified, poll>>

\* the loop is over: throw lastError
ThrowLastError ==
    /\ call.fn = "fetchWithRetry"
    /\ call.pc = "loop"
    /\ call.i >= call.arg
    /\ call' = [call EXCEPT !.pc = "done", !.done = TRUE, !.thrown = TRUE,
                            !.result = call.lastError]
    /\ UNCHANGED <<store, nextId, cm, mark, preActivation, lastOp, lastId, budget,
                   now, timeouts, notified, poll>>

InitState ==
    /\ store = InitStore
    /\ nextId = 3
    /\ cm = InitCm
    /\ mark = NoMark
    /\ preActivation = [valid |-> TRUE, cameraState |-> InitStore.cameraState,
                        left |-> FALSE, entered |-> FALSE]
    /\ lastOp = "init"
    /\ lastId = NULL
    /\ now = 0
    /\ timeouts = {}
    /\ notified = {}

(* ---------------------------- specifications ----------------------------- *)

\* the store operations on assets, the scene and its history
Init ==
    /\ InitState
    /\ poll = NoPoll
    /\ call = NoCall
    /\ budget = MaxSteps

Next ==
    \/ AddAsset
    \/ \E id \in AssetIds(store) \cup {nextId}, u \in AssetUpdates : UpdateAsset(id, u)
    \/ \E id \in AssetIds(store) \cup {nextId} : RemoveAsset(id)
    \/ AddModelToScene
    \/ AddLightToScene
    \/ AddCameraToScene
    \/ \E id \in SceneIds(store) \cup {nextId}, u \in ObjUpdates : UpdateSceneObject(id, u)
    \/ \E id \in SceneIds(store) \cup {nextId} : RemoveSceneObject(id)
    \/ ClearScene
    \/ \E id \in SceneIds(store) \cup {NULL} : SetSelectedObjectId(id)
    \/ \E id \in CameraIds(store) \cup {NULL} : SetActiveCameraId(id)
    \/ \E u \in TransformUpdates : UpdateSelectedObjectTransform(u)
    \/ \E u \in RenderUpdates : UpdateRenderSettings(u)
    \/ Undo
    \/ Redo

Spec == Init /\ [][Next]_vars

\* the operations on the scene and its history, with the marker of a sequence
\* of mutating operations
NextHist ==
    \/ AddModelToScene
    \/ AddLightToScene
    \/ AddCameraToScene
    \/ \E id \in SceneIds(store) \cup {nextId}, u \in HistUpdates : UpdateSceneObject(id, u)
    \/ \E id \in SceneIds(store) \cup {nextId} : RemoveSceneObject(id)
    \/ ClearScene
    \/ \E id \in SceneIds(store) \cup {NULL} : SetSelectedObjectId(id)
    \/ \E u \in TransformUpdates : UpdateSelectedObjectTransform(u)
    \/ UpdateRenderSettings([gridVisible |-> TRUE])
    \/ Undo
    \/ Redo
    \/ Mark

SpecHist == Init /\ [][NextHist]_vars

\* the camera operations: mode switches, camera writes, orbit gestures and the
\* reset timer, with the scene operations that change the active camera object
InitCam ==
    /\ InitState
    /\ poll = NoPoll
    /\ call = NoCall
    /\ budget = MaxCamSteps

NextCam ==
    \/ \E id \in CameraIds(store) \cup {NULL} : SetActiveCameraId(id)
    \/ \E u \in CameraUpdates : SetCameraState(u)
    \/ ResetCamera
    \/ \E p \in GesturePositions \cup {cm.position}, g \in GestureTargets \cup {cm.target},
          r \in Rotations : Orbit(p, g, r)
    \/ ResetTimer
    \/ \E id \in CameraIds(store) : UpdateSceneObject(id, [locked |-> TRUE])
    \/ \E id \in CameraIds(store) : RemoveSceneObject(id)
    \/ AddCameraToScene
    \/ Undo
    \/ Redo

SpecCam == InitCam /\ [][NextCam]_vars

\* the camera under the scheduling of the browser: a timeout that was set
\* fires (50 ms after the store -> camera application that set it)
FairSpecCam == SpecCam /\ WF_vars(ResetTimer)

\* the notification queue and its timeouts, with the asset list and the
\* history operations
InitNotif ==
    /\ InitState
    /\ poll = NoPoll
    /\ call = NoCall
    /\ budget = MaxNotifSteps

NotificationInputs == {<<"success", "ready">>, <<"error", "failed">>}

\* an asset list handed to setAssets: one finished asset of an earlier session
SavedAssets ==
    <<[id |-> -1, originalName |-> "b.png", imageUrl |-> "blob:b",
       status |-> "completed", modelUrl |-> "saved.glb", createdAt |-> 0]>>

NextNotif ==
    \/ \E n \in NotificationInputs : AddNotification(n[1], n[2])
    \/ \E id \in {g.id : g \in notified} \cup {nextId} : RemoveNotification(id)
    \/ \E t \in timeouts : ExpireNotification(t)
    \/ \E t \in TimeTargets : AdvanceTime(t)
    \/ AddAsset
    \/ \E id \in AssetIds(store) \cup {nextId} : UpdateAsset(id, [status |-> "processing"])
    \/ \E id \in AssetIds(store) \cup {nextId} : RemoveAsset(id)
    \/ \E a \in {<<>>, SavedAssets} : SetAssets(a)
    \/ UpdateRenderSettings([gridVisible |-> TRUE])
    \/ RemoveSceneObject(DEFAULT_CAMERA_ID)
    \/ Undo
    \/ Redo

SpecNotif == InitNotif /\ [][NextNotif]_vars

\* an image is imported and a model is generated from it: the upload, the
\* task creation and the polling of the task
InitPoll ==
    /\ InitState
    /\ poll = NoPoll
    /\ call = NoCall
    /\ budget = 1

NextPoll ==
    \/ AddAsset
    \/ \E id \in AssetIds(store) : HandleGenerate(id)
    \/ StartPolling
    \/ GenerateFails
    \/ PollTick
    \/ \E r \in poll.inflight, o \in PollFetchOutcomes : FetchResolves(r, o)
    \/ \E r \in poll.inflight, body \in PollBodies : JsonResolves(r, body)
    \/ \E r \in poll.inflight : JsonThrows(r)
    \/ \E d \in poll.downloads, result \in {"blob", "404", "other"} : DownloadResolves(d, result)

SpecPoll == InitPoll /\ [][NextPoll]_vars

\* one pollTripoTask run followed to its end
NextPollRun ==
    \/ AddAsset
    \/ \E id \in AssetIds(store) : HandleGenerate(id)
    \/ StartPolling
    \/ PollTickRun
    \/ \E r \in poll.inflight, o \in PollFetchOutcomes : FetchResolves(r, o)
    \/ \E r \in poll.inflight, body \in RunBodies : JsonResolves(r, body)
    \/ \E r \in poll.inflight : JsonThrows(r)
    \/ \E d \in poll.downloads : DownloadResolves(d, "blob")

SpecPollRun == InitPoll /\ [][NextPollRun]_vars

\* a status request that was started settles
RequestSettles ==
    \/ \E r \in poll.inflight, o \in PollFetchOutcomes : FetchResolves(r, o)
    \/ \E r \in poll.inflight, body \in RunBodies : JsonResolves(r, body)
    \/ \E r \in poll.inflight : JsonThrows(r)

\* the run under the scheduling of the browser: an interval that is set
\* keeps firing its callback every 2000 ms, and a request that was started
\* settles with a response or an error
FairSpecPollRun ==
    SpecPollRun /\ WF_vars(PollTickRun) /\ WF_vars(RequestSettles)

\* one call of fetchWithRetry: arg is retries, seen the outcomes of the
\* requests started so far, backoffs the waits made so far
InitRetry ==
    /\ InitState
    /\ poll = NoPoll
    /\ budget = 0
    /\ \E retries \in 1..MaxRetries :
           call = [fn |-> "fetchWithRetry", arg |-> retries, done |-> FALSE,
                   result |-> NoError, i |-> 0, pc |-> "loop", lastError |-> NoError,
                   seen |-> <<>>, backoffs |-> <<>>, thrown |-> FALSE]

NextRetry ==
    \/ \E o \in RetryOutcomes : FetchAttempt(o)
    \/ Backoff
    \/ ThrowLastError

SpecRetry == InitRetry /\ [][NextRetry]_vars

\* one call of mapTripoStatus on a status of the vendor
InitStatus ==
    /\ InitState
    /\ poll = NoPoll
    /\ budget = 0
    /\ \E status \in StatusInputs :
           call = [fn |-> "mapTripoStatus", arg |-> status, done |-> FALSE, result |-> "none"]

NextStatus == MapTripoStatus

SpecStatus == InitStatus /\ [][NextStatus]_vars

\* one call of testApiConnection, whose single fetch attempt has one outcome
InitProbe ==
    /\ InitState
    /\ poll = NoPoll
    /\ budget = 0
    /\ \E o \in ProbeOutcomes :
           call = [fn |-> "testApiConnection", arg |-> <<o>>, done |-> FALSE,
                   result |-> [success |-> FALSE, message |-> <<"none", 0>>]]

NextProbe == TestApiConnection

SpecProbe == InitProbe /\ [][NextProbe]_vars

(* ---------------------------- properties --------------------------------- *)

RECURSIVE UndoN(_, _)
UndoN(s, n) == IF n = 0 THEN s ELSE UndoN(undo(s), n - 1)

RECURSIVE RedoN(_, _)
RedoN(s, n) == IF n = 0 THEN s ELSE RedoN(redo(s), n - 1)

\* the operations that change the scene or the render settings
MutatingOps ==
    {"addModelToScene", "addLightToScene", "addCameraToScene", "updateSceneObject",
     "removeSceneObject", "clearScene", "updateRenderSettings",
     "updateSelectedObjectTransform"}

SelectedObj(s) ==
    LET isSel(o) == o.id = s.selectedObjectId
    IN  Find(isSel, s.sceneObjects)

SelectedLocked(s) ==
    s.selectedObjectId # NULL /\ SelectedObj(s) # Undefined /\ Locked(SelectedObj(s))

\* C1: after a sequence of N scene-mutating operations, N undos give back the
\* sceneObjects, renderSettings and selectedObjectId the sequence started from,
\* and N redos after them give back those the sequence ended with.
UndoRedoSymmetry ==
    mark.on =>
        /\ Snapshot(UndoN(store, mark.n)) = mark.base
        /\ Snapshot(RedoN(UndoN(store, mark.n), mark.n)) = Snapshot(store)

\* a sequence of two operations ending in clearScene, run over a pending redo
UndoRedoSymmetryWitness ==
    /\ mark.on
    /\ mark.n = 2
    /\ lastOp = "clearScene"
    /\ Len(store.future) > 0
    /\ mark.base # Snapshot(store)

\* C2: every step of a scene-mutating operation that is not blocked leaves the
\* future stack empty, so that a redo after it is a no-op.
FutureClearedByMutation ==
    [][(lastOp' \in MutatingOps /\ budget' # budget /\ store'.past # store.past)
          => store'.future = <<>>]_vars

\* C3: activeCameraId is null or the id of a camera object of the scene.
ActiveCameraValid ==
    \/ store.activeCameraId = NULL
    \/ \E i \in 1..Len(store.sceneObjects) :
          /\ store.sceneObjects[i].id = store.activeCameraId
          /\ store.sceneObjects[i].type = "camera"

\* C4: updateSelectedObjectTransform on a locked selected object changes no
\* field of the store: no mutation, no snapshot, future and selection kept.
LockedTransformNoOp ==
    [][(lastOp' = "updateSelectedObjectTransform" /\ budget' # budget /\ SelectedLocked(store))
          => store' = store]_vars

\* the operation ran on a locked selected object while a redo was pending
LockedTransformNoOpWitness ==
    /\ lastOp = "updateSelectedObjectTransform"
    /\ SelectedLocked(store)
    /\ Len(store.past) > 0
    /\ Len(store.future) > 0

\* the object of a list with the given id
ObjById(objs, id) ==
    LET has(o) == o.id = id
    IN  Find(has, objs)

\* C5: updateSceneObject, removeSceneObject and updateSelectedObjectTransform
\* on an id that names no scene object change nothing: sceneObjects, past,
\* future, selectedObjectId and activeCameraId are kept.
StaleIdCompleteNoOp ==
    [][(budget' # budget
          /\ lastOp' \in {"updateSceneObject", "removeSceneObject", "updateSelectedObjectTransform"}
          /\ lastId' \notin SceneIds(store))
          => /\ store'.sceneObjects = store.sceneObjects
             /\ store'.past = store.past
             /\ store'.future = store.future
             /\ store'.selectedObjectId = store.selectedObjectId
             /\ store'.activeCameraId = store.activeCameraId]_vars

\* C6: no store write (updateSceneObject, the camera sync's updateSceneObject,
\* updateSelectedObjectTransform) changes the transform of a locked object.
LockedTransformKept ==
    [][(budget' # budget
          /\ lastOp' \in {"updateSceneObject", "handleControlsChange",
                          "updateSelectedObjectTransform"})
          => \A i \in 1..Len(store.sceneObjects) :
                LET o == store.sceneObjects[i]
                IN  (Locked(o) /\ HasId(store'.sceneObjects, o.id))
                        => ObjById(store'.sceneObjects, o.id).transform = o.transform]_vars

\* C7: updateSceneObject and removeSceneObject with an id of no scene object
\* keep sceneObjects; updateAsset and removeAsset with an id of no asset keep
\* assets.
StaleIdKeepsLists ==
    [][(budget' # budget)
          => /\ (lastOp' \in {"updateSceneObject", "removeSceneObject"}
                    /\ lastId' \notin SceneIds(store))
                  => store'.sceneObjects = store.sceneObjects
             /\ (lastOp' \in {"updateAsset", "removeAsset"}
                    /\ lastId' \notin AssetIds(store))
                  => store'.assets = store.assets]_vars

\* a scene object was removed, then removed again by its stale id
StaleIdKeepsListsWitness ==
    /\ lastOp = "removeSceneObject"
    /\ lastId \notin SceneIds(store)
    /\ Len(store.past) >= 2
    /\ store.past[Len(store.past)].sceneObjects = store.sceneObjects
    /\ Len(store.sceneObjects) > 0

\* C8: removeSceneObject(id) removes the object with that id and no other,
\* clears selectedObjectId and activeCameraId exactly when they were id.
RemoveCleansReferences ==
    [][(budget' # budget /\ lastOp' = "removeSceneObject")
          => LET id == lastId'
             IN  /\ SceneIds(store') = SceneIds(store) \ {id}
                 /\ Len(store'.sceneObjects) =
                        Len(store.sceneObjects) - (IF id \in SceneIds(store) THEN 1 ELSE 0)
                 /\ \A i \in 1..Len(store.sceneObjects) :
                        store.sceneObjects[i].id # id
                            => ObjById(store'.sceneObjects, store.sceneObjects[i].id)
                                   = store.sceneObjects[i]
                 /\ store'.selectedObjectId =
                        IF store.selectedObjectId = id THEN NULL ELSE store.selectedObjectId
                 /\ store'.activeCameraId =
                        IF store.activeCameraId = id THEN NULL ELSE store.activeCameraId]_vars

\* the selected, active camera was removed and the light stayed
RemoveCleansReferencesWitness ==
    /\ lastOp = "removeSceneObject"
    /\ lastId = DEFAULT_CAMERA_ID
    /\ Len(store.past) > 0
    /\ store.past[Len(store.past)].selectedObjectId = DEFAULT_CAMERA_ID
    /\ store.selectedObjectId = NULL
    /\ store.activeCameraId = NULL
    /\ SceneIds(store) = {DEFAULT_LIGHT_ID}

\* C9: from the activation of object-view mode to the state after its
\* deactivation, cameraState keeps its pre-activation value unless
\* setCameraState or resetCamera ran.
CameraRoundTrip ==
    preActivation.valid => store.cameraState = preActivation.cameraState

\* object-view mode was left after an orbit gesture wrote the camera object,
\* with a cameraState that differs from the default
CameraRoundTripWitness ==
    /\ preActivation.valid
    /\ lastOp = "setActiveCameraId"
    /\ store.activeCameraId = NULL
    /\ store.cameraState # EDITOR_CAMERA
    /\ Len(store.past) > 0
    /\ ObjById(store.sceneObjects, DEFAULT_CAMERA_ID) # Undefined
    /\ ObjById(store.sceneObjects, DEFAULT_CAMERA_ID).transform # MainCamera.transform

\* C10: handleControlsChange writes nothing while a guard flag is set, a
\* camera -> store write starts no store -> camera application, and a step
\* without user input (the reset timer) writes nothing to the store and
\* uses up a pending timer.
NoSyncFeedback ==
    [][/\ (budget' # budget /\ lastOp' = "handleControlsChange"
              /\ (cm.isSyncingStoreToCamera \/ cm.isTransitioning))
            => store' = store
       /\ (budget' # budget /\ lastOp' = "handleControlsChange")
            => /\ cm'.timers = cm.timers
               /\ cm'.isSyncingStoreToCamera = cm.isSyncingStoreToCamera
       /\ (budget' = budget)
            => /\ store' = store
               /\ cm'.timers < cm.timers]_vars

\* a gesture moved the live camera away from cameraState while the sync guard
\* was set, and nothing was written
NoSyncFeedbackWitness ==
    /\ lastOp = "handleControlsChange"
    /\ cm.isSyncingStoreToCamera
    /\ store.activeCameraId = NULL
    /\ DistSq(cm.position, store.cameraState.position) > EpsSq

\* C11: cameraVersion never decreases: setCameraState and resetCamera add 1 to
\* it, and every other step (syncCameraState from an orbit gesture, undo,
\* redo, setActiveCameraId, the scene operations, the reset timer) keeps it.
CameraVersionMonotonic ==
    [][IF budget' # budget /\ lastOp' \in {"setCameraState", "resetCamera"}
       THEN store'.cameraVersion = store.cameraVersion + 1
       ELSE store'.cameraVersion = store.cameraVersion]_vars

\* after an external write, an orbit gesture in editor mode was synced to
\* cameraState and the version stayed at 1
CameraVersionMonotonicWitness ==
    /\ lastOp = "handleControlsChange"
    /\ store.activeCameraId = NULL
    /\ store.cameraVersion = 1
    /\ store.cameraState.position = <<0, 100, 353>>

NotificationIds(s) == {s.notifications[i].id : i \in 1..Len(s.notifications)}

\* C13: a notification added at time T is in the list at every time before
\* T + 4000 ms unless removeNotification was called for it, and is in the list
\* at no time after T + 4000 ms; the expiry of a notification removes that
\* notification only.
NotificationExpiry ==
    /\ [](\A g \in notified :
            /\ (now < g.at + 4000 /\ ~g.dismissed) => g.id \in NotificationIds(store)
            /\ now > g.at + 4000 => g.id \notin NotificationIds(store))
    /\ [][(budget' # budget /\ lastOp' = "expireNotification")
             => LET keep(n) == n.id # lastId'
                IN  store'.notifications = SelectSeq(store.notifications, keep)]_vars

\* 4001 ms after the first notification was added it is gone, with no call of
\* removeNotification, and the notification added 1 ms after it is still there
NotificationExpiryWitness ==
    /\ \E g \in notified :
           /\ now = g.at + 4001
           /\ ~g.dismissed
           /\ g.id \notin NotificationIds(store)
    /\ \E g \in notified :
           /\ now = g.at + 4000
           /\ g.id \in NotificationIds(store)
    /\ lastOp = "advanceTime"

\* C16: addAsset, updateAsset, removeAsset, setAssets, addNotification,
\* removeNotification and the expiry of a notification keep past, future,
\* sceneObjects, renderSettings and selectedObjectId; undo and redo keep assets
\* and notifications; addAsset puts the new asset at the head of the list.
OutsideUndoDomain ==
    [][(budget' # budget)
          => /\ lastOp' \in {"addAsset", "updateAsset", "removeAsset", "setAssets",
                              "addNotification", "removeNotification", "expireNotification"}
                  => /\ store'.past = store.past
                     /\ store'.future = store.future
                     /\ Snapshot(store') = Snapshot(store)
             /\ lastOp' \in {"undo", "redo"}
                  => /\ store'.assets = store.assets
                     /\ store'.notifications = store.notifications
             /\ lastOp' = "addAsset"
                  => /\ Len(store'.assets) = Len(store.assets) + 1
                     /\ Head(store'.assets).id = lastId'
                     /\ Tail(store'.assets) = store.assets]_vars

\* an undo ran over a list of two assets, the newer one at its head, and a
\* pending notification
OutsideUndoDomainWitness ==
    /\ lastOp = "undo"
    /\ Len(store.future) > 0
    /\ Len(store.assets) = 2
    /\ store.assets[1].id = 3
    /\ Len(store.notifications) > 0

\* C19: removeNotification(id) removes the notification with that id and
\* keeps the others in their order; it changes nothing when the notification
\* is gone; the timeout of a notification that is gone changes nothing.
RemoveNotificationIdempotent ==
    [][(budget' # budget /\ lastOp' \in {"removeNotification", "expireNotification"})
          => LET keep(n) == n.id # lastId'
             IN  /\ store'.notifications = SelectSeq(store.notifications, keep)
                 /\ lastId' \notin NotificationIds(store) => store' = store]_vars

\* removeNotification was called for a notification whose timeout had fired,
\* while another notification was in the list
RemoveNotificationIdempotentWitness ==
    /\ lastOp = "removeNotification"
    /\ \E g \in notified : g.id = lastId /\ g.dismissed
    /\ \A t \in timeouts : t.id # lastId
    /\ Len(store.notifications) > 0

\* C14 as stated: no snapshot value is in both the past and the future stack.
PastFutureDisjoint ==
    \A i \in 1..Len(store.past), j \in 1..Len(store.future) :
        store.past[i] # store.future[j]

\* the history as one timeline: the past, the current state, the future
Timeline(s) == s.past \o <<Snapshot(s)>> \o s.future

\* C14 as amended: undo and redo move the current position along the timeline
\* past, current, future and neither copy nor drop an entry, so each entry of
\* the history is in one stack only; equal values may be in both.
TimelineKept ==
    [][(budget' # budget /\ lastOp' \in {"undo", "redo"})
          => Timeline(store') = Timeline(store)]_vars

\* after an undo both stacks hold entries, and one value is in both
TimelineKeptWitness ==
    /\ lastOp = "undo"
    /\ Len(store.past) > 0
    /\ Len(store.future) > 0
    /\ ~PastFutureDisjoint

\* the ids of the objects of the history snapshots
HistoryIds(s) ==
    UNION {{s.past[i].sceneObjects[k].id : k \in 1..Len(s.past[i].sceneObjects)}
              : i \in 1..Len(s.past)}
    \cup UNION {{s.future[i].sceneObjects[k].id : k \in 1..Len(s.future[i].sceneObjects)}
              : i \in 1..Len(s.future)}

DistinctIds(objs) == \A i, j \in 1..Len(objs) : objs[i].id = objs[j].id => i = j

\* C15: addModelToScene, addLightToScene and addCameraToScene append one
\* object whose id is the id of no object of the list or of the history, keep
\* the list before it, select the new object and push the pre-operation
\* snapshot onto past; the ids of the scene objects are pairwise distinct.
AddAppendsFresh ==
    /\ []DistinctIds(store.sceneObjects)
    /\ [][(budget' # budget
             /\ lastOp' \in {"addModelToScene", "addLightToScene", "addCameraToScene"})
          => LET n == Len(store.sceneObjects)
             IN  /\ Len(store'.sceneObjects) = n + 1
                 /\ SubSeq(store'.sceneObjects, 1, n) = store.sceneObjects
                 /\ store'.sceneObjects[n + 1].id = lastId'
                 /\ lastId' \notin SceneIds(store) \cup HistoryIds(store)
                 /\ store'.selectedObjectId = lastId'
                 /\ store'.past = Append(store.past, Snapshot(store))]_vars

\* a camera was added to a scene whose history already holds two snapshots
AddAppendsFreshWitness ==
    /\ lastOp = "addCameraToScene"
    /\ Len(store.past) >= 3
    /\ Len(store.sceneObjects) >= 2
    /\ store.sceneObjects[Len(store.sceneObjects)].type = "camera"
    /\ store.selectedObjectId = lastId
    /\ store.past[Len(store.past)].selectedObjectId # lastId

\* the canonical status of each listed upstream status
StatusTable ==
    {<<<<"q", "u", "e", "u", "e", "d">>, "pending">>,
     <<<<"p", "e", "n", "d", "i", "n", "g">>, "pending">>,
     <<<<"c", "r", "e", "a", "t", "e", "d">>, "pending">>,
     <<<<"r", "u", "n", "n", "i", "n", "g">>, "processing">>,
     <<<<"s", "t", "a", "r", "t", "i", "n", "g">>, "processing">>,
     <<<<"p", "r", "o", "c", "e", "s", "s", "i", "n", "g">>, "processing">>,
     <<<<"i", "n", "i", "t", "i", "a", "l", "i", "z", "i", "n", "g">>, "processing">>,
     <<<<"s", "u", "c", "c", "e", "s", "s">>, "completed">>,
     <<<<"s", "u", "c", "c", "e", "e", "d", "e", "d">>, "completed">>,
     <<<<"f", "i", "n", "i", "s", "h", "e", "d">>, "completed">>,
     <<<<"c", "o", "m", "p", "l", "e", "t", "e", "d">>, "completed">>,
     <<<<"f", "a", "i", "l", "e", "d">>, "error">>,
     <<<<"b", "a", "n", "n", "e", "d">>, "error">>,
     <<<<"e", "x", "p", "i", "r", "e", "d">>, "error">>,
     <<<<"c", "a", "n", "c", "e", "l", "l", "e", "d">>, "error">>,
     <<<<"u", "n", "k", "n", "o", "w", "n">>, "error">>,
     <<<<"u", "n", "k", "n", "o", "w", "n", "_", "e", "r", "r", "o", "r">>, "error">>}

\* C17: mapTripoStatus gives each listed upstream status, in any letter case
\* and with white space around it, its canonical status, and gives "pending"
\* for every other string, for the empty string and for a missing status.
StatusMappingComplete ==
    (call.fn = "mapTripoStatus" /\ call.done)
        => call.result =
               IF \E e \in StatusTable : call.arg \in StatusVariants(e[1])
               THEN (CHOOSE e \in StatusTable : call.arg \in StatusVariants(e[1]))[2]
               ELSE "pending"

\* "FINISHED" in capitals between a tab, a space and a newline gave "completed"
StatusMappingCompleteWitness ==
    /\ call.fn = "mapTripoStatus"
    /\ call.done
    /\ call.arg = <<"\t", " ", "F", "I", "N", "I", "S", "H", "E", "D", "\n">>
    /\ call.result = "completed"

\* the probe request was answered with the HTTP status st
ProbeAnswered(st) ==
    /\ call.fn = "testApiConnection"
    /\ call.done
    /\ call.arg[1].kind = "response"
    /\ call.arg[1].status = st

\* C18 as stated: testApiConnection reports success whenever the probe is
\* answered with 404, whatever the content type, and failure for 401 and 403.
ProbeNotFoundIsSuccess ==
    /\ ProbeAnswered(404) => call.result.success
    /\ (ProbeAnswered(401) \/ ProbeAnswered(403)) => ~call.result.success

\* C18 as amended: success for a 404 whose content type does not contain
\* text/html, failure for an answer whose content type contains text/html
\* whatever its status, and failure for 401 and 403.
ProbeNotFoundNotHtmlIsSuccess ==
    LET html == /\ call.arg[1].contentType # NoHeader
                /\ \E i \in 1..(Len(call.arg[1].contentType) - 8) :
                       SubSeq(call.arg[1].contentType, i, i + 8)
                           = <<"t", "e", "x", "t", "/", "h", "t", "m", "l">>
    IN  /\ (ProbeAnswered(404) /\ ~html) => call.result.success
        /\ (ProbeAnswered(404) /\ html) => ~call.result.success
        /\ (ProbeAnswered(401) \/ ProbeAnswered(403)) => ~call.result.success

\* a 404 with a JSON body was reported as success
ProbeNotFoundNotHtmlIsSuccessWitness ==
    /\ ProbeAnswered(404)
    /\ call.arg[1].contentType = <<"a", "p", "p", "l", "i", "c", "a", "t", "i", "o", "n", "/", "j", "s", "o", "n">>
    /\ call.result.success

\* Pending, then Processing, then Completed or Error
StatusRank(status) ==
    IF status = "pending" THEN 0 ELSE IF status = "processing" THEN 1 ELSE 2

\* C12: a polling callback never moves the status of the asset back (from
\* Processing to Pending), and changes neither the status nor the modelUrl
\* of an asset that is Completed or Error.
AssetStatusAdvances ==
    [][(lastOp' \in {"onUpdate", "downloadTripoModel"}
          /\ AssetById(store, lastId') # Undefined
          /\ AssetById(store', lastId') # Undefined)
          => LET a == AssetById(store, lastId')
                 b == AssetById(store', lastId')
             IN  /\ StatusRank(b.status) >= StatusRank(a.status)
                 /\ StatusRank(a.status) = 2
                      => (b.status = a.status /\ b.modelUrl = a.modelUrl)]_vars

\* C20: at most one status request of a pollTripoTask run is started and not
\* yet handled: a tick starts no request while another is under way.
PollRequestsNeverOverlap == Cardinality(poll.inflight) <= 1

\* the asset the generation was started for
PolledAsset == AssetById(store, poll.assetId)

RequestHandled ==
    /\ poll'.inflight # poll.inflight
    /\ poll'.inflight \subseteq poll.inflight

\* the step ends with the interval cleared and onUpdate(Error) called
CancelledWithError ==
    /\ ~poll'.active
    /\ lastOp' = "onUpdate"
    /\ PolledAsset'.status = "error"

\* C22: pollTripoTask cancels its interval and reports Error on the 4th of 4
\* consecutive transient failures (HTTP errors that are not fail-fast, thrown
\* exceptions such as a network failure or an unparsable body) with no
\* successful poll in between, and does not cancel on fewer; a successful
\* poll resets the count; 401, 403, 404 and 5xx cancel at once
TransientErrorThreshold ==
    [][(poll.active /\ RequestHandled)
          => /\ (poll'.handled = "transient" /\ poll'.streak = 4) => CancelledWithError
             /\ (poll'.handled = "transient" /\ poll'.streak < 4) => poll'.active
             /\ (poll'.handled = "failfast") => CancelledWithError
             /\ (poll'.handled = "body") => poll'.consecutiveErrors = 0]_vars

\* the models in the scene
SceneModels == {i \in 1..Len(store.sceneObjects) : store.sceneObjects[i].type = "model"}

\* C27: one pollTripoTask run delivers at most one terminal callback
\* (Completed or Error) and no callback after its interval was cleared,
\* whatever the interleaving of ticks and slow responses; so one task adds
\* its model to the scene at most once
SingleTerminalCallback ==
    /\ poll.terminals <= 1
    /\ ~poll.late
    /\ Cardinality(SceneModels) <= 1

\* the attempts of the call that failed
FailedAttempts == {k \in 1..Len(call.seen) : retryable(call.seen[k])}

NullOrPresent(objs, id) == id = NULL \/ HasId(objs, id)

\* C28: selectedObjectId is null or the id of an object in sceneObjects,
\* after every sequence of store operations (setSelectedObjectId being called
\* with null or the id of an object present at the call), and so is the
\* selectedObjectId of every snapshot in past and future with respect to the
\* sceneObjects of that snapshot
SelectionValid ==
    /\ NullOrPresent(store.sceneObjects, store.selectedObjectId)
    /\ \A i \in 1..Len(store.past) :
           NullOrPresent(store.past[i].sceneObjects, store.past[i].selectedObjectId)
    /\ \A i \in 1..Len(store.future) :
           NullOrPresent(store.future[i].sceneObjects, store.future[i].selectedObjectId)

SelectionValidWitness ==
    /\ lastOp = "undo"
    /\ store.selectedObjectId # NULL
    /\ Len(store.future) > 0
    /\ ~HasId(store.future[1].sceneObjects, store.selectedObjectId)
    /\ store.future[1].selectedObjectId = NULL

\* the camera object activeCameraId names in the store, Undefined if none
ActiveCamera == activeCameraObj(store)

\* an orbit-control end event that passed the guards and the delta check of
\* the object-view branch of handleControlsChange
PropagatedInObjectView ==
    /\ lastOp' = "handleControlsChange"
    /\ store.activeCameraId # NULL
    /\ ActiveCamera # Undefined
    /\ ~cm.isSyncingStoreToCamera /\ ~cm.isTransitioning
    /\ DistSq(ActiveCamera.transform.position, cm'.position) >= EpsSq

\* C29: orbit navigation is recorded in the undo history exactly in
\* object-view mode: a propagated orbit-control end event while activeCameraId
\* names an existing camera pushes exactly one snapshot onto past and empties
\* future; in free mode an orbit-control end event changes only cameraState
\* and leaves sceneObjects, past and future unchanged
OrbitHistory ==
    [][/\ PropagatedInObjectView
           => /\ store'.past = Append(store.past, Snapshot(store))
              /\ store'.future = <<>>
              /\ ActiveCamera'.transform.position = cm'.position
       /\ (lastOp' = "handleControlsChange" /\ store.activeCameraId = NULL)
           => store' = [store EXCEPT !.cameraState = store'.cameraState]]_vars

OrbitHistoryWitness ==
    /\ lastOp = "handleControlsChange"
    /\ store.activeCameraId # NULL
    /\ Len(store.past) >= 2
    /\ store.future = <<>>
    /\ store.past[Len(store.past)].sceneObjects # store.sceneObjects
    /\ ActiveCamera.transform.position = cm.position

\* the live camera and the orbit target are where cameraState says
LiveEqualsStored ==
    /\ cm.position = store.cameraState.position
    /\ cm.target = store.cameraState.target
    /\ cm.fov = store.cameraState.fov

\* C23: in free mode, after every setCameraState or resetCamera the live
\* camera's position, orbit target and fov eventually equal the stored
\* cameraState (unless object-view mode is entered first), also for a write
\* of fov only and for a write made while the 50 ms guard timer is pending
FreeCameraFollowsStore ==
    (store.activeCameraId = NULL /\ lastOp \in {"setCameraState", "resetCamera"})
        ~> (LiveEqualsStored \/ store.activeCameraId # NULL)

\* the step just taken switched from object-view mode to free mode: the
\* transition detection effect has just set isTransitioning
Deactivated ==
    /\ preActivation.left
    /\ store.activeCameraId = NULL
    /\ cm.isTransitioning
    /\ lastOp \in {"setActiveCameraId", "removeSceneObject", "clearScene"}

\* C24: whenever activeCameraId goes from a camera id to null, the live
\* camera's position, orbit target and fov are eventually set to the values
\* of cameraState (unless object-view mode is entered again or cameraState
\* is written first), also when isSyncingStoreToCamera is still set at that
\* moment
DeactivationReapplies ==
    Deactivated
        ~> \/ LiveEqualsStored
           \/ store.activeCameraId # NULL
           \/ lastOp \in {"setCameraState", "resetCamera"}

GuardsReleased ==
    /\ []((cm.isSyncingStoreToCamera \/ cm.isTransitioning) => cm.timers > 0)
    /\ (cm.isSyncingStoreToCamera ~> ~cm.isSyncingStoreToCamera)
    /\ (cm.isTransitioning ~> ~cm.isTransitioning)

GuardsReleasedWitness ==
    /\ lastOp = "resetTimer"
    /\ store.activeCameraId = NULL
    /\ ~cm.isSyncingStoreToCamera
    /\ ~cm.isTransitioning
    /\ cm.timers = 0
    /\ ~LiveEqualsStored

====
